---- MODULE Spec2Model ----
(***************************************************************************)
(* ET-Bus endpoint (ETBus.h / ETBus.cpp): identity, command handler slot,  *)
(* the inbound dispatch step loop() and the outbound emitters, over the    *)
(* UDP multicast channel.                                                  *)
(*                                                                         *)
(* C strings are sequences of one-character strings (the terminating NUL   *)
(* is the end of the sequence); a const char* is a JSON-like value that is *)
(* either JNull (nullptr) or JStr(s).  A JSON document is the ordered list *)
(* of its root members; the "payload" member holds a nested object.        *)
(***************************************************************************)
EXTENDS Integers, Sequences, FiniteSets, TLC

(* ------------------------------ bounds --------------------------------- *)

\* Datagrams that may wait in the socket's receive queue.
MaxQueue == 2

\* Number of times the clock is advanced.
MaxTicks == 2

(* --------------------------- program constants ------------------------- *)

\* char buf[512] in loop(), StaticJsonDocument<512> in loop()
RecvBufSize == 512

\* char buffer[512] in _send()
SendBufSize == 512

\* StaticJsonDocument<N> capacities of the emitters
DiscoverDocCap == 256
PongDocCap == 256
StateDocCap == 512
SwitchDocCap == 64
RgbDocCap == 96

\* Bytes one object member takes in an ArduinoJson 6 memory pool on the
\* 32-bit target of this library (JSON_OBJECT_SIZE(1) on ESP32).
VariantSlotSize == 16

\* millis() is a 32-bit unsigned counter: it wraps at 2^32 = 4294967296 ms,
\* that is at 4294967 s and 296 ms.  The counter is kept as whole seconds
\* and the milliseconds past them.
MillisWrapSec == 4294967
MillisWrapMs == 296

(* ------------------------------ C strings ------------------------------ *)

S_ping == <<"p", "i", "n", "g">>
S_pong == <<"p", "o", "n", "g">>
S_command == <<"c", "o", "m", "m", "a", "n", "d">>
S_discover == <<"d", "i", "s", "c", "o", "v", "e", "r">>
S_state == <<"s", "t", "a", "t", "e">>
S_other == <<"h", "e", "l", "l", "o">>
S_empty == <<>>

\* device ids: own id, and ids that differ in case, are a prefix, an extension
S_ab == <<"a", "b">>
S_Ab == <<"A", "b">>
S_a == <<"a">>
S_abc == <<"a", "b", "c">>
S_xy == <<"x", "y">>

S_switch == <<"s", "w">>
S_light == <<"l", "i">>
S_name == <<"H", "a", "l", "l">>
S_fw == <<"1", ".", "0">>

\* a comparison that looks at the first character only
FirstCharCmp(a, b) ==
    IF a = <<>> /\ b = <<>> THEN 0
    ELSE IF a = <<>> \/ b = <<>> THEN 1
    ELSE IF Head(a) # Head(b) THEN 1
    ELSE 0

\* strcmp(a, b): 0 iff the two strings are equal, character by character
RECURSIVE strcmp(_, _)
strcmp(a, b) ==
    IF a = <<>> /\ b = <<>> THEN 0
    ELSE IF a = <<>> \/ b = <<>> THEN 1
    ELSE IF Head(a) # Head(b) THEN 1
    ELSE strcmp(Tail(a), Tail(b))

(* ------------------------------ JSON values ---------------------------- *)

JNull == [t |-> "null", n |-> 0, s |-> <<>>]
JObj == [t |-> "obj", n |-> 0, s |-> <<>>]
JInt(k) == [t |-> "int", n |-> k, s |-> <<>>]
JBool(b) == [t |-> "bool", n |-> IF b THEN 1 ELSE 0, s |-> <<>>]
JStr(str) == [t |-> "str", n |-> 0, s |-> str]

\* a member of a nested object, a scalar member of the root, an object member
Pair(k, v) == [key |-> k, val |-> v]
Member(k, v) == [key |-> k, val |-> v, obj |-> <<>>]
ObjMember(k, ps) == [key |-> k, val |-> JObj, obj |-> ps]

\* index of the first member named key, 0 if there is none
IndexOfKey(ms, key) ==
    IF \E i \in 1..Len(ms) : ms[i].key = key
    THEN CHOOSE i \in 1..Len(ms) :
            /\ ms[i].key = key
            /\ \A j \in 1..(i - 1) : ms[j].key # key
    ELSE 0

\* doc[key] read: the member's value, null when absent
GetMember(root, key) ==
    LET i == IndexOfKey(root, key)
    IN  IF i = 0 THEN JNull ELSE root[i].val

\* doc[key].as<JsonObject>(): the nested object, a null object otherwise
AsObject(root, key) ==
    LET i == IndexOfKey(root, key)
    IN  IF i # 0 /\ root[i].val.t = "obj"
        THEN [isNull |-> FALSE, pairs |-> root[i].obj]
        ELSE [isNull |-> TRUE, pairs |-> <<>>]

\* variant | "" : the string, or the default when the variant is no string
AsStringOr(v, default) == IF v.t = "str" THEN v.s ELSE default

\* a version check that lets newer versions through
VariantAtLeast(v, k) == v.t = "int" /\ v.n >= k

\* variant == integer
VariantIsInt(v, k) == v.t = "int" /\ v.n = k

(* ------------------------ JSON documents (memory pool) ----------------- *)

\* The element of a one-element set.  An operator that reads an argument
\* several times takes it as the element of a one-element set, so that the
\* argument is computed once.
Only(S) == CHOOSE x \in S : TRUE

NewDoc(capacity) == [cap |-> capacity, used |-> 0, root |-> <<>>]

HasRoom(doc) == doc.used + VariantSlotSize <= doc.cap

\* doc[key] = value; the member is dropped when the pool is full
DocSet(document, key, v) ==
    Only({LET i == IndexOfKey(doc.root, key)
          IN  IF i # 0 THEN [doc EXCEPT !.root[i] = Member(key, v)]
              ELSE IF HasRoom(doc)
              THEN [doc EXCEPT !.root = Append(@, Member(key, v)),
                               !.used = @ + VariantSlotSize]
              ELSE doc : doc \in {document}})

\* doc.createNestedObject(key); a null object when the pool is full
CreateNestedObject(document, key) ==
    Only({LET i == IndexOfKey(doc.root, key)
          IN  IF i # 0 THEN [doc EXCEPT !.root[i] = ObjMember(key, <<>>)]
              ELSE IF HasRoom(doc)
              THEN [doc EXCEPT !.root = Append(@, ObjMember(key, <<>>)),
                               !.used = @ + VariantSlotSize]
              ELSE doc : doc \in {document}})

\* p[key] = value on the object created under objKey; nothing happens on a
\* null object or when the pool is full
NestedSet(document, objKey, key, v) ==
    Only({LET i == IndexOfKey(doc.root, objKey)
          IN  IF i = 0 \/ doc.root[i].val.t # "obj" THEN doc
              ELSE LET j == IndexOfKey(doc.root[i].obj, key)
                   IN  IF j # 0
                       THEN [doc EXCEPT !.root[i].obj[j] = Pair(key, v)]
                       ELSE IF HasRoom(doc)
                       THEN [doc EXCEPT
                                !.root[i].obj = Append(@, Pair(key, v)),
                                !.used = @ + VariantSlotSize]
                       ELSE doc : doc \in {document}})

(* ----------------------------- serialization --------------------------- *)

RECURSIVE DecLen(_)
DecLen(k) ==
    IF k < 0 THEN 1 + DecLen(-k)
    ELSE IF k < 10 THEN 1
    ELSE 1 + DecLen(k \div 10)

\* length of the JSON text of a scalar
ScalarLen(v) ==
    CASE v.t = "null" -> 4
      [] v.t = "bool" -> IF v.n = 1 THEN 4 ELSE 5
      [] v.t = "int" -> DecLen(v.n)
      [] v.t = "str" -> Len(v.s) + 2
      [] OTHER -> 2

\* "key":value for each member, separated by commas
RECURSIVE PairsLen(_)
PairsLen(ps) ==
    IF ps = <<>> THEN 0
    ELSE Len(Head(ps).key) + 3 + ScalarLen(Head(ps).val)
         + (IF Len(ps) > 1 THEN 1 ELSE 0) + PairsLen(Tail(ps))

RECURSIVE MembersLen(_)
MembersLen(ms) ==
    IF ms = <<>> THEN 0
    ELSE Len(Head(ms).key) + 3
         + (IF Head(ms).val.t = "obj"
            THEN 2 + PairsLen(Head(ms).obj)
            ELSE ScalarLen(Head(ms).val))
         + (IF Len(ms) > 1 THEN 1 ELSE 0) + MembersLen(Tail(ms))

\* number of bytes of the minified JSON text of a document
measureJson(root) == 2 + MembersLen(root)

Min(a, b) == IF a < b THEN a ELSE b

(* -------------------------------- the wire ----------------------------- *)

\* A UDP datagram: the document its JSON text denotes (syntax "ok"), the
\* length of that text, and the number of bytes in the datagram.  size is
\* larger than jsonLen when bytes follow the closing brace and smaller when
\* the text was cut.
Datagram(root, textLen, bytes) ==
    [syntax |-> "ok", root |-> root, jsonLen |-> textLen, size |-> bytes]

NoDatagram == [syntax |-> "none", root |-> <<>>, jsonLen |-> 0, size |-> 0]

\* serializeJson(doc, buffer, sizeof(buffer)) then one packet of len bytes
_send(doc) ==
    Only({Datagram(root, full, Min(full, SendBufSize)) :
            root \in {doc.root}, full \in {measureJson(doc.root)}})

\* number of pool slots the members of a document take
RECURSIVE SlotCount(_)
SlotCount(ms) ==
    IF ms = <<>> THEN 0
    ELSE 1 + Len(Head(ms).obj) + SlotCount(Tail(ms))

\* deserializeJson(doc, buf) on the first len bytes of a datagram: an error
\* on bad syntax, on a text cut before its end, and on a full pool; bytes
\* after the closing brace of the root object are not read
deserializeJson(capacity, dg, len) ==
    LET err == \/ dg.syntax # "ok"
               \/ len < dg.jsonLen
               \/ SlotCount(dg.root) * VariantSlotSize > capacity
    IN  [err |-> err, root |-> IF err THEN <<>> ELSE dg.root]

(* ------------------------------- emitters ------------------------------ *)

\* doc["v"] = 1; doc["type"] = type; doc["id"] = _id; doc["class"] = _class
Header(capacity, type, id, class) ==
    DocSet(DocSet(DocSet(DocSet(NewDoc(capacity),
        "v", JInt(1)), "type", JStr(type)), "id", id), "class", class)

DiscoverEnvelope(id, class, name, fw) ==
    LET d0 == Header(DiscoverDocCap, S_discover, id, class)
        d1 == CreateNestedObject(d0, "payload")
        d2 == NestedSet(d1, "payload", "name", name)
        d3 == NestedSet(d2, "payload", "fw", fw)
    IN  _send(d3)

\* a pong that leaves out the class
PongWithoutClass(id, class, now, rssi) ==
    LET d0 == DocSet(DocSet(DocSet(NewDoc(PongDocCap),
                  "v", JInt(1)), "type", JStr(S_pong)), "id", id)
        d1 == CreateNestedObject(d0, "payload")
        d2 == NestedSet(d1, "payload", "uptime", JInt(now.s))
        d3 == NestedSet(d2, "payload", "rssi", JInt(rssi))
    IN  _send(d3)

\* p["uptime"] = millis() / 1000; p["rssi"] = WiFi.RSSI()
PongEnvelope(id, class, now, rssi) ==
    LET d0 == Header(PongDocCap, S_pong, id, class)
        d1 == CreateNestedObject(d0, "payload")
        d2 == NestedSet(d1, "payload", "uptime", JInt(now.s))
        d3 == NestedSet(d2, "payload", "rssi", JInt(rssi))
    IN  _send(d3)

\* for (JsonPair kv : payload) p[kv.key()] = kv.value();
\* The members are set one after the other, in the caller's order.  (The
\* document after the first n-1 members is bound by CHOOSE so that it is
\* computed before the n-th member is set.)
RECURSIVE CopyPairs(_, _)
CopyPairs(doc, ps) ==
    IF ps = <<>> THEN doc
    ELSE CHOOSE d \in {NestedSet(copied, "payload",
                                 ps[Len(ps)].key, ps[Len(ps)].val) :
                       copied \in {CopyPairs(doc, SubSeq(ps, 1, Len(ps) - 1))}} :
            TRUE

StateEnvelope(id, class, payload) ==
    LET d0 == Header(StateDocCap, S_state, id, class)
        d1 == CreateNestedObject(d0, "payload")
    IN  _send(CopyPairs(d1, payload))

SwitchEnvelope(id, class, on) ==
    LET d0 == Header(SwitchDocCap, S_state, id, class)
        d1 == CreateNestedObject(d0, "payload")
        d2 == NestedSet(d1, "payload", "on", JBool(on))
    IN  _send(d2)

RgbEnvelope(id, class, on, r, g, b, brightness) ==
    LET d0 == Header(RgbDocCap, S_state, id, class)
        d1 == CreateNestedObject(d0, "payload")
        d2 == NestedSet(d1, "payload", "on", JBool(on))
        d3 == NestedSet(d2, "payload", "r", JInt(r))
        d4 == NestedSet(d3, "payload", "g", JInt(g))
        d5 == NestedSet(d4, "payload", "b", JInt(b))
        d6 == NestedSet(d5, "payload", "brightness", JInt(brightness))
    IN  _send(d6)

(* ------------------------------ inputs --------------------------------- *)

\* a command handler is a function pointer: 0 is nullptr
NullHandler == 0
Handlers == {1, 2}

\* identities passed to begin(): a null id, an empty id, a proper id
BeginIds == {JNull, JStr(S_empty), JStr(S_ab)}
BeginClasses == {JStr(S_switch)}

\* WiFi.RSSI() readings
RssiSamples == {-67}

\* steps of the clock: 2^31 ms, so that the second step wraps the counter
TickSteps == {[s |-> 2147483, ms |-> 648]}

\* (m + d) mod 2^32
MillisAdd(m, d) ==
    LET carry == IF m.ms + d.ms >= 1000 THEN 1 ELSE 0
        s1 == m.s + d.s + carry
        ms1 == m.ms + d.ms - 1000 * carry
        wraps == s1 > MillisWrapSec
                 \/ (s1 = MillisWrapSec /\ ms1 >= MillisWrapMs)
        borrow == IF ms1 < MillisWrapMs THEN 1 ELSE 0
    IN  IF wraps
        THEN [s |-> s1 - MillisWrapSec - borrow,
              ms |-> ms1 - MillisWrapMs + 1000 * borrow]
        ELSE [s |-> s1, ms |-> ms1]

\* caller-supplied payloads of sendState
KeyName(i) == "k" \o ToString(i)
LongKeyName(i) == "a_rather_long_field_name_" \o ToString(i)
Fields(n) == [i \in 1..n |-> Pair(KeyName(i), JBool(i % 2 = 1))]
WideFields(n) == [i \in 1..n |-> Pair(LongKeyName(i), JInt(1000 + i))]
SwitchPayload(on) == <<Pair("on", JBool(on))>>
RgbPayload(on, r, g, b, brightness) ==
    <<Pair("on", JBool(on)), Pair("r", JInt(r)), Pair("g", JInt(g)),
      Pair("b", JInt(b)), Pair("brightness", JInt(brightness))>>

\* uint8_t samples for r, g, b, brightness
ByteSamples == {0, 255}

\* field counts of the generic payloads: up to and past the 27 members that
\* fit a 512-byte pool next to the five root members
FieldCounts == {0, 1, 2, 27, 28}
WideCounts == {20}

StatePayloads ==
    {Fields(n) : n \in FieldCounts} \cup {WideFields(n) : n \in WideCounts}
    \cup {SwitchPayload(TRUE), RgbPayload(TRUE, 255, 0, 255, 0)}

(* ----------------------- datagrams of the coordinator ------------------ *)

\* bytes added to make a datagram longer than the receive buffer
Oversize == 600

Wire(root) == Datagram(root, measureJson(root), measureJson(root))
\* the same text followed by bytes after the closing brace
Trailed(root) ==
    Datagram(root, measureJson(root), measureJson(root) + Oversize)
\* the same document written with white space inside, so that the text
\* itself is longer than the receive buffer
Spaced(root) ==
    Datagram(root, measureJson(root) + Oversize, measureJson(root) + Oversize)
Garbage == [syntax |-> "bad", root |-> <<>>, jsonLen |-> 0, size |-> 9]
EmptyDatagram == [syntax |-> "bad", root |-> <<>>, jsonLen |-> 0, size |-> 0]

InPayload == <<Pair("on", JBool(TRUE))>>

\* {"v":v,"type":type,"id":id,"class":"li","payload":{"on":true}}, a member
\* left out when its value is null
Envelope(v, type, id) ==
    (IF v = JNull THEN <<>> ELSE <<Member("v", v)>>)
    \o (IF type = JNull THEN <<>> ELSE <<Member("type", type)>>)
    \o (IF id = JNull THEN <<>> ELSE <<Member("id", id)>>)
    \o <<Member("class", JStr(S_light)), ObjMember("payload", InPayload)>>

\* {"v":1,"type":"command","id":"ab","payload":{"on":true}}
ClasslessCommand ==
    <<Member("v", JInt(1)), Member("type", JStr(S_command)),
      Member("id", JStr(S_ab)), ObjMember("payload", InPayload)>>

\* {"v":1,"type":"ping"}
BarePing == <<Member("v", JInt(1)), Member("type", JStr(S_ping))>>

\* a ping with more members than the receive document has room for
CrowdedPing ==
    BarePing \o <<ObjMember("payload", Fields(31))>>

CommandIds ==
    {JNull, JStr(S_empty), JStr(S_ab), JStr(S_Ab), JStr(S_a), JStr(S_abc)}

Inbound ==
    {Wire(Envelope(JInt(1), JStr(S_command), id)) : id \in CommandIds}
    \cup {Wire(BarePing),
          Wire(Envelope(JInt(1), JStr(S_ping), JStr(S_xy))),
          Wire(Envelope(JInt(2), JStr(S_ping), JNull)),
          Wire(Envelope(JNull, JStr(S_ping), JNull)),
          Wire(Envelope(JStr(<<"1">>), JStr(S_command), JStr(S_ab))),
          Wire(Envelope(JInt(1), JNull, JStr(S_ab))),
          Wire(Envelope(JInt(1), JStr(S_empty), JStr(S_ab))),
          Wire(Envelope(JInt(1), JStr(S_discover), JStr(S_ab))),
          Wire(Envelope(JInt(1), JStr(S_pong), JStr(S_ab))),
          Wire(Envelope(JInt(1), JStr(S_state), JStr(S_ab))),
          Wire(Envelope(JInt(1), JStr(S_other), JStr(S_ab))),
          Wire(ClasslessCommand),
          Wire(CrowdedPing),
          Trailed(BarePing),
          Trailed(Envelope(JInt(1), JStr(S_command), JStr(S_ab))),
          Spaced(BarePing),
          Garbage,
          EmptyDatagram}

(* -------------------------------- state -------------------------------- *)

VARIABLES
    _id, _class, _name, _fw,   \* identity (const char*)
    _cmdHandler,               \* the command handler slot
    joined,                    \* _udp has joined the multicast group
    rxQueue,                   \* datagrams waiting in _udp
    rxPending,                 \* _udp still holds unread bytes of the
                               \* datagram it delivered last
    millis,                    \* the millisecond counter
    ticks,                     \* number of clock steps taken
    op,                        \* the latest step: a call on the object, or
                               \* "none" for a step of the environment
    out,                       \* datagrams that step put on the channel
    invoked,                   \* handler invocations that step made
    registered                 \* argument of the latest onCommand call

vars == <<_id, _class, _name, _fw, _cmdHandler, joined, rxQueue, rxPending,
          millis, ticks, op, out, invoked, registered>>

identity == <<_id, _class, _name, _fw>>

Call(name, dg, arg) == [name |-> name, dg |-> dg, arg |-> arg]

Init ==
    /\ _id = JNull /\ _class = JNull /\ _name = JNull /\ _fw = JNull
    /\ _cmdHandler = NullHandler
    /\ joined = FALSE
    /\ rxQueue = <<>>
    /\ rxPending = FALSE
    /\ millis = [s |-> 0, ms |-> 0]
    /\ ticks = 0
    /\ op = Call("none", NoDatagram, <<>>)
    /\ out = <<>>
    /\ invoked = <<>>
    /\ registered = <<>>

(* --------------------------- address matcher --------------------------- *)

\* a matcher that compares only the first strlen(id) characters
AddrMatchesPrefix(root) ==
    LET id == AsStringOr(GetMember(root, "id"), S_empty)
    IN  IF id = <<>> \/ _id = JNull THEN FALSE
        ELSE /\ Len(id) <= Len(_id.s)
             /\ strcmp(id, SubSeq(_id.s, 1, Len(id))) = 0

\* a matcher without the test for an empty envelope id
AddrMatchesUnguarded(root) ==
    LET id == AsStringOr(GetMember(root, "id"), S_empty)
    IN  IF _id = JNull THEN FALSE
        ELSE strcmp(id, _id.s) = 0

\* const char* id = doc["id"] | ""; false on an empty id or an unset own id
_addrMatchesMe(root) ==
    LET id == AsStringOr(GetMember(root, "id"), S_empty)
    IN  IF id = <<>> \/ _id = JNull THEN FALSE
        ELSE strcmp(id, _id.s) = 0

(* ---------------------------- dispatch step ---------------------------- *)

NoReaction == [send |-> <<>>, call |-> <<>>]

\* an invocation that passes the class written in the envelope
InvocationEnvelopeClass(handler, root) ==
    [h |-> handler, class |-> GetMember(root, "class"),
     payload |-> AsObject(root, "payload")]

\* _cmdHandler(_class, doc["payload"].as<JsonObject>())
Invocation(handler, root) ==
    [h |-> handler, class |-> _class, payload |-> AsObject(root, "payload")]

\* the body of loop() once parsePacket() has delivered a datagram
Dispatch(dg, rssi) ==
    LET len == Min(dg.size, RecvBufSize - 1)
    IN  Only({
        LET doc == parsed.root
            type == AsStringOr(GetMember(doc, "type"), S_empty)
        IN
        IF len <= 0 THEN NoReaction
        ELSE IF parsed.err THEN NoReaction
        ELSE IF ~VariantIsInt(GetMember(doc, "v"), 1) THEN NoReaction
        ELSE IF type = <<>> THEN NoReaction
        ELSE IF strcmp(type, S_ping) = 0
        THEN [send |-> <<PongEnvelope(_id, _class, millis, rssi)>>,
              call |-> <<>>]
        ELSE IF strcmp(type, S_command) = 0
        THEN IF ~_addrMatchesMe(doc) THEN NoReaction
             ELSE IF _cmdHandler # NullHandler
             THEN [send |-> <<>>,
                   call |-> <<Invocation(_cmdHandler, doc)>>]
             ELSE NoReaction
        ELSE NoReaction : parsed \in {deserializeJson(RecvBufSize, dg, len)}})

\* _udp.parsePacket(): the size of the next datagram; 0 when none waits, and
\* 0 without looking at the socket while bytes of the datagram delivered
\* last are still unread (WiFiUDP of the ESP32 core 2.0.x named in begin())
parsePacket ==
    IF rxPending \/ rxQueue = <<>> THEN 0 ELSE Head(rxQueue).size

\* a loop() that drains the socket
ConsumedAll == Len(rxQueue)

\* a loop() that leaves the datagram queued while no handler is set
ConsumedWhenHandled ==
    IF rxPending \/ rxQueue = <<>> \/ _cmdHandler = NullHandler THEN 0 ELSE 1

\* number of datagrams one call of loop() takes from the socket
Consumed == IF rxPending \/ rxQueue = <<>> THEN 0 ELSE 1

\* _udp.read(buf, sizeof(buf) - 1) leaves the bytes past the first 511 in
\* _udp; they stay there, as no later call reads or flushes them
RestAfterRead ==
    \/ rxPending
    \/ rxQueue # <<>> /\ Head(rxQueue).size > RecvBufSize - 1

\* a loop() that sends a pong whenever nothing waits
PollHeartbeat(rssi) ==
    IF parsePacket <= 0
    THEN [send |-> <<PongEnvelope(_id, _class, millis, rssi)>>, call |-> <<>>]
    ELSE Dispatch(Head(rxQueue), rssi)

\* what one call of loop() sends and invokes
Poll(rssi) ==
    IF parsePacket <= 0 THEN NoReaction
    ELSE Dispatch(Head(rxQueue), rssi)

(* ------------------------------- actions ------------------------------- *)

\* a begin() that answers before it announces
beginPongFirst(id, class, name, fw) ==
    /\ _id' = id /\ _class' = class /\ _name' = name /\ _fw' = fw
    /\ joined' = TRUE
    /\ rxQueue' = <<>>
    /\ rxPending' = FALSE
    /\ \E rssi \in RssiSamples :
          out' = <<PongEnvelope(id, class, millis, rssi),
                   DiscoverEnvelope(id, class, name, fw)>>
    /\ invoked' = <<>>
    /\ op' = Call("begin", NoDatagram,
                  <<Pair("id", id), Pair("class", class),
                    Pair("name", name), Pair("fw", fw)>>)
    /\ UNCHANGED <<_cmdHandler, millis, ticks, registered>>

\* begin(): store the identity, (re)open the socket, discover, then pong.
\* beginMulticast() closes a socket left open by an earlier begin(), which
\* drops the datagrams still queued in it and the unread bytes it holds.
begin(id, class, name, fw) ==
    /\ _id' = id /\ _class' = class /\ _name' = name /\ _fw' = fw
    /\ joined' = TRUE
    /\ rxQueue' = <<>>
    /\ rxPending' = FALSE
    /\ \E rssi \in RssiSamples :
          out' = <<DiscoverEnvelope(id, class, name, fw),
                   PongEnvelope(id, class, millis, rssi)>>
    /\ invoked' = <<>>
    /\ op' = Call("begin", NoDatagram,
                  <<Pair("id", id), Pair("class", class),
                    Pair("name", name), Pair("fw", fw)>>)
    /\ UNCHANGED <<_cmdHandler, millis, ticks, registered>>

\* an onCommand() that keeps a handler that is already set
onCommandKeepFirst(cb) ==
    /\ _cmdHandler' = IF _cmdHandler = NullHandler THEN cb ELSE _cmdHandler
    /\ registered' = <<cb>>
    /\ out' = <<>>
    /\ invoked' = <<>>
    /\ op' = Call("onCommand", NoDatagram, <<>>)
    /\ UNCHANGED <<identity, joined, rxQueue, rxPending, millis, ticks>>

onCommand(cb) ==
    /\ _cmdHandler' = cb
    /\ registered' = <<cb>>
    /\ out' = <<>>
    /\ invoked' = <<>>
    /\ op' = Call("onCommand", NoDatagram, <<>>)
    /\ UNCHANGED <<identity, joined, rxQueue, rxPending, millis, ticks>>

loop ==
    /\ \E rssi \in RssiSamples :
          \E reaction \in {Poll(rssi)} :
             /\ out' = reaction.send
             /\ invoked' = reaction.call
    /\ op' = Call("loop",
                  IF Consumed = 0 THEN NoDatagram ELSE Head(rxQueue), <<>>)
    /\ rxQueue' = SubSeq(rxQueue, Consumed + 1, Len(rxQueue))
    /\ rxPending' = RestAfterRead
    /\ UNCHANGED <<identity, _cmdHandler, joined, millis, ticks, registered>>

sendDiscover ==
    /\ out' = <<DiscoverEnvelope(_id, _class, _name, _fw)>>
    /\ invoked' = <<>>
    /\ op' = Call("sendDiscover", NoDatagram, <<>>)
    /\ UNCHANGED <<identity, _cmdHandler, joined, rxQueue, rxPending, millis,
                   ticks, registered>>

sendPong ==
    /\ \E rssi \in RssiSamples :
          out' = <<PongEnvelope(_id, _class, millis, rssi)>>
    /\ invoked' = <<>>
    /\ op' = Call("sendPong", NoDatagram, <<>>)
    /\ UNCHANGED <<identity, _cmdHandler, joined, rxQueue, rxPending, millis,
                   ticks, registered>>

sendState(payload) ==
    /\ out' = <<StateEnvelope(_id, _class, payload)>>
    /\ invoked' = <<>>
    /\ op' = Call("sendState", NoDatagram, payload)
    /\ UNCHANGED <<identity, _cmdHandler, joined, rxQueue, rxPending, millis,
                   ticks, registered>>

sendSwitchState(on) ==
    /\ out' = <<SwitchEnvelope(_id, _class, on)>>
    /\ invoked' = <<>>
    /\ op' = Call("sendSwitchState", NoDatagram, SwitchPayload(on))
    /\ UNCHANGED <<identity, _cmdHandler, joined, rxQueue, rxPending, millis,
                   ticks, registered>>

sendRgbState(on, r, g, b, brightness) ==
    /\ out' = <<RgbEnvelope(_id, _class, on, r, g, b, brightness)>>
    /\ invoked' = <<>>
    /\ op' = Call("sendRgbState", NoDatagram,
                  RgbPayload(on, r, g, b, brightness))
    /\ UNCHANGED <<identity, _cmdHandler, joined, rxQueue, rxPending, millis,
                   ticks, registered>>

\* a step of the environment: the object is not called
Quiet ==
    /\ op' = Call("none", NoDatagram, <<>>)
    /\ out' = <<>>
    /\ invoked' = <<>>

\* time passes; the counter wraps at 2^32
Tick(d) ==
    /\ ticks < MaxTicks
    /\ ticks' = ticks + 1
    /\ millis' = MillisAdd(millis, d)
    /\ Quiet
    /\ UNCHANGED <<identity, _cmdHandler, joined, rxQueue, rxPending,
                   registered>>

\* datagrams that queue up behind one another; the remaining kinds of
\* Inbound arrive one at a time, at a drained socket, and a socket that
\* holds unread bytes gets one ping
Backlog ==
    {Wire(BarePing), Garbage,
     Wire(Envelope(JInt(1), JStr(S_command), JStr(S_ab))),
     Wire(Envelope(JInt(1), JStr(S_command), JStr(S_Ab)))}

\* the coordinator or a peer sends a datagram to the group
Arrive(dg) ==
    /\ joined
    /\ Len(rxQueue) < MaxQueue
    /\ IF rxPending THEN rxQueue = <<>> /\ dg = Wire(BarePing)
       ELSE \/ rxQueue = <<>>
            \/ /\ dg \in Backlog
               /\ \A i \in 1..Len(rxQueue) : rxQueue[i] \in Backlog
    /\ rxQueue' = Append(rxQueue, dg)
    /\ Quiet
    /\ UNCHANGED <<identity, _cmdHandler, joined, rxPending, millis, ticks,
                   registered>>

Next ==
    \/ \E id \in BeginIds, class \in BeginClasses :
          begin(id, class, JStr(S_name), JStr(S_fw))
    \/ \E cb \in Handlers \cup {NullHandler} : onCommand(cb)
    \/ loop
    \/ sendDiscover
    \/ sendPong
    \/ \E payload \in StatePayloads : sendState(payload)
    \/ \E on \in BOOLEAN : sendSwitchState(on)
    \/ \E on \in BOOLEAN, r \in ByteSamples :
          sendRgbState(on, r, 255 - r, 7, 100)
    \/ \E d \in TickSteps : Tick(d)
    \/ \E dg \in Inbound : Arrive(dg)

Spec == Init /\ [][Next]_vars

\* The endpoint at work: the sketch calls begin() once, from setup(), and
\* then calls loop() again and again from the Arduino main loop, sending a
\* pong or a switch state now and then, while datagrams arrive and time
\* passes.  begin() is not repeated, and a call of loop() that can take a
\* step is not put off for ever.
setup(id, class, name, fw) == ~joined /\ begin(id, class, name, fw)

NextRunning ==
    \/ \E id \in BeginIds, class \in BeginClasses :
          setup(id, class, JStr(S_name), JStr(S_fw))
    \/ \E cb \in Handlers \cup {NullHandler} : onCommand(cb)
    \/ loop
    \/ sendPong
    \/ sendSwitchState(TRUE)
    \/ \E d \in TickSteps : Tick(d)
    \/ \E dg \in Inbound : Arrive(dg)

FairSpec == Init /\ [][NextRunning]_vars /\ WF_vars(loop)

(* ---------------------------- vocabulary -------------------------------- *)

\* the latest step was a call of loop() that took a datagram from the socket
TookDatagram == op.name = "loop" /\ op.dg # NoDatagram

\* the bytes loop() reads from the datagram decode into a document
Parses(dg) ==
    /\ dg.size > 0
    /\ ~deserializeJson(RecvBufSize, dg, Min(dg.size, RecvBufSize - 1)).err

Field(dg, key) == GetMember(dg.root, key)

\* the envelope's id is a non-empty string, identical to the own id
AddressedToMe(dg) ==
    /\ Field(dg, "id").t = "str"
    /\ Field(dg, "id").s # <<>>
    /\ Field(dg, "id") = _id

\* a decoded envelope of version 1 and the given type
ValidOfType(dg, type) ==
    /\ Parses(dg)
    /\ Field(dg, "v") = JInt(1)
    /\ Field(dg, "type") = JStr(type)

\* a buffer that does not decode, or lacks version 1 or a non-empty type
Malformed(dg) ==
    \/ ~Parses(dg)
    \/ Field(dg, "v") # JInt(1)
    \/ Field(dg, "type").t # "str"
    \/ Field(dg, "type").s = <<>>

\* a datagram that carries a whole envelope with the own id and class
CarriesOwnIdentity(dg, type) ==
    /\ dg.syntax = "ok"
    /\ dg.size = dg.jsonLen
    /\ Field(dg, "v") = JInt(1)
    /\ Field(dg, "type") = JStr(type)
    /\ IndexOfKey(dg.root, "id") # 0 /\ Field(dg, "id") = _id
    /\ IndexOfKey(dg.root, "class") # 0 /\ Field(dg, "class") = _class

(* ------------------------------- claims -------------------------------- *)

\* C1: with a handler registered, a version-1 "command" envelope processed
\* by loop() invokes the handler exactly once if its id is identical to the
\* own id, and not at all for any other id; nothing is sent either way.
C1_CommandInvokedIffAddressed ==
    (TookDatagram /\ ValidOfType(op.dg, S_command)
        /\ _cmdHandler # NullHandler)
    => /\ out = <<>>
       /\ IF AddressedToMe(op.dg)
          THEN Len(invoked) = 1 /\ invoked[1].h = _cmdHandler
          ELSE invoked = <<>>

C1_Witness ==
    /\ TookDatagram /\ ValidOfType(op.dg, S_command)
    /\ _cmdHandler # NullHandler
    /\ AddressedToMe(op.dg)
    /\ Len(invoked) = 1

\* C2: a version-1 "ping" envelope processed by loop() is answered by
\* exactly one pong with the own id and class, whatever the ping's id, class
\* and payload, and the handler is not invoked.
C2_PingAnsweredByOnePong ==
    (TookDatagram /\ ValidOfType(op.dg, S_ping))
    => /\ Len(out) = 1
       /\ CarriesOwnIdentity(out[1], S_pong)
       /\ invoked = <<>>

C2_Witness ==
    /\ TookDatagram /\ ValidOfType(op.dg, S_ping)
    /\ Field(op.dg, "id") = JStr(S_xy)
    /\ _id = JStr(S_ab)
    /\ _cmdHandler # NullHandler
    /\ Len(out) = 1

\* C3: a buffer that fails to parse, or whose v is not 1, or whose type is
\* missing or empty, has no effect when loop() takes it: nothing is sent,
\* the handler is not invoked, identity and handler stay as they were.
C3_MalformedHasNoEffect ==
    [][(loop /\ rxQueue # <<>> /\ Malformed(Head(rxQueue)))
        => /\ out' = <<>>
           /\ invoked' = <<>>
           /\ UNCHANGED <<identity, _cmdHandler, registered>>]_vars

C3_Witness ==
    /\ TookDatagram /\ Malformed(op.dg)
    /\ Field(op.dg, "v") = JInt(2)
    /\ Field(op.dg, "type") = JStr(S_ping)
    /\ out = <<>>

\* C4: begin(id, class, name, fw) stores the identity and emits exactly two
\* envelopes: first a discover with payload {name, fw}, then a pong, both
\* with the id and class just passed.
C4_BeginEmitsDiscoverThenPong ==
    op.name = "begin"
    => /\ identity = <<op.arg[1].val, op.arg[2].val,
                       op.arg[3].val, op.arg[4].val>>
       /\ Len(out) = 2
       /\ CarriesOwnIdentity(out[1], S_discover)
       /\ AsObject(out[1].root, "payload")
            = [isNull |-> FALSE,
               pairs |-> <<Pair("name", _name), Pair("fw", _fw)>>]
       /\ CarriesOwnIdentity(out[2], S_pong)

C4_Witness ==
    /\ op.name = "begin"
    /\ _id = JStr(S_ab)
    /\ Len(out) = 2
    /\ Field(out[1], "type") = JStr(S_discover)

\* C5: sendState(payload) emits exactly one whole envelope of version 1 and
\* type "state" with the own id and class, whose payload object has exactly
\* the caller's keys with the caller's values.
C5_StateCarriesCallersPayload ==
    op.name = "sendState"
    => /\ Len(out) = 1
       /\ CarriesOwnIdentity(out[1], S_state)
       /\ AsObject(out[1].root, "payload")
            = [isNull |-> FALSE, pairs |-> op.arg]

\* C6: sendSwitchState(on) and sendRgbState(on, r, g, b, brightness) emit
\* the envelope that sendState emits for the payload {on} and
\* {on, r, g, b, brightness}.
C6_TypedEmittersEqualSendState ==
    (op.name = "sendSwitchState" \/ op.name = "sendRgbState")
    => out = <<StateEnvelope(_id, _class, op.arg)>>

\* C7: the handler slot is unset before the first onCommand call and holds
\* the argument of the latest call after it; an addressed command invokes
\* that handler exactly once, and no other handler is ever invoked.
C7_LatestHandlerOnly ==
    /\ _cmdHandler = (IF registered = <<>> THEN NullHandler ELSE registered[1])
    /\ Len(invoked) <= 1
    /\ \A i \in 1..Len(invoked) :
          registered # <<>> /\ invoked[i].h = registered[1]
    /\ (TookDatagram /\ ValidOfType(op.dg, S_command) /\ AddressedToMe(op.dg)
          /\ registered # <<>> /\ registered # <<NullHandler>>)
       => Len(invoked) = 1

C7_Witness ==
    /\ TookDatagram /\ ValidOfType(op.dg, S_command) /\ AddressedToMe(op.dg)
    /\ registered = <<2>>
    /\ Len(invoked) = 1 /\ invoked[1].h = 2

\* C8: with no datagram queued, loop() sends nothing, invokes nothing and
\* leaves identity, handler, socket and clock as they are, so any number of
\* such calls leaves the state of no call.
C8_IdleLoopIsNoOp ==
    [][(loop /\ rxQueue = <<>>)
        => /\ out' = <<>>
           /\ invoked' = <<>>
           /\ UNCHANGED <<identity, _cmdHandler, joined, rxQueue,
                          rxPending, millis, registered>>]_vars

C8_Witness ==
    /\ op.name = "loop" /\ op.dg = NoDatagram
    /\ joined /\ _cmdHandler # NullHandler
    /\ rxQueue = <<>> /\ out = <<>> /\ invoked = <<>>

\* C9: one call of loop() takes at most one datagram, leaving the others
\* queued in order, and reacts with at most one emitted envelope or one
\* handler invocation, never both.
C9_OneMessageOneReaction ==
    [][loop
        => /\ \/ rxQueue' = rxQueue
              \/ rxQueue # <<>> /\ rxQueue' = Tail(rxQueue)
           /\ Len(out') + Len(invoked') <= 1]_vars

C9_Witness ==
    /\ TookDatagram
    /\ Len(rxQueue) = 1
    /\ Len(out) = 1

\* C10: a datagram longer than 512 bytes is never dispatched: loop() sends
\* no pong and invokes no handler for it.
C10_OversizeNeverDispatched ==
    (TookDatagram /\ op.dg.size > RecvBufSize)
    => out = <<>> /\ invoked = <<>>

\* C11: no step puts a truncated envelope on the channel: every datagram
\* sent carries the whole text of its envelope, and an envelope whose text
\* is longer than the 512-byte send buffer is not sent at all.
C11_NoTruncatedEnvelope ==
    \A i \in 1..Len(out) :
        /\ out[i].size = out[i].jsonLen
        /\ out[i].jsonLen <= SendBufSize

\* C12: a decoded version-1 envelope whose type is a non-empty string other
\* than "ping" and "command" (discover, pong, state, any other) gets no
\* reaction from loop(): nothing is sent and the handler is not invoked,
\* even when its id is the own id and a handler is registered.
C12_OtherTypesIgnored ==
    (/\ TookDatagram /\ Parses(op.dg)
     /\ Field(op.dg, "v") = JInt(1)
     /\ Field(op.dg, "type").t = "str"
     /\ Field(op.dg, "type").s # <<>>
     /\ Field(op.dg, "type").s \notin {S_ping, S_command})
    => out = <<>> /\ invoked = <<>>

C12_Witness ==
    /\ TookDatagram /\ ValidOfType(op.dg, S_pong)
    /\ AddressedToMe(op.dg)
    /\ _cmdHandler # NullHandler
    /\ out = <<>> /\ invoked = <<>>

\* C13: a version-1 command addressed to the own id that loop() takes while
\* no handler is set is consumed and dropped: nothing is sent or invoked,
\* the datagram leaves the socket, identity, handler and clock stay as they
\* were.  It is kept nowhere: a handler is only ever invoked by the call of
\* loop() that takes a command from the socket, with a handler set at that
\* time and with that command's payload, and registering a handler invokes
\* nothing.
C13_UnhandledCommandDropped ==
    [][/\ (/\ loop /\ rxQueue # <<>> /\ ~rxPending
           /\ ValidOfType(Head(rxQueue), S_command)
           /\ AddressedToMe(Head(rxQueue))
           /\ _cmdHandler = NullHandler)
          => /\ out' = <<>> /\ invoked' = <<>>
             /\ rxQueue' = Tail(rxQueue)
             /\ UNCHANGED <<identity, _cmdHandler, joined, millis,
                            registered>>
       /\ invoked' # <<>>
          => /\ loop /\ rxQueue # <<>> /\ ~rxPending
             /\ _cmdHandler # NullHandler
             /\ ValidOfType(Head(rxQueue), S_command)
             /\ invoked'[1].payload = AsObject(Head(rxQueue).root, "payload")
       /\ (\E cb \in Handlers : onCommand(cb))
          => invoked' = <<>> /\ out' = <<>> /\ rxQueue' = rxQueue]_vars

C13_Witness ==
    /\ TookDatagram /\ ValidOfType(op.dg, S_command) /\ AddressedToMe(op.dg)
    /\ _cmdHandler = NullHandler
    /\ rxQueue = <<>> /\ out = <<>> /\ invoked = <<>>

\* the own id is a null pointer or points to an empty string
OwnIdUnset == _id = JNull \/ _id = JStr(S_empty)

\* C14: while the own id is unset or empty, the address matcher is false
\* for every envelope, whatever its id (also an empty or a missing one),
\* and no datagram taken by loop() invokes the handler.
C14_UnsetIdMatchesNothing ==
    OwnIdUnset
    => /\ \A dg \in Inbound : ~_addrMatchesMe(dg.root)
       /\ invoked = <<>>

C14_Witness ==
    /\ _id = JStr(S_empty)
    /\ TookDatagram /\ ValidOfType(op.dg, S_command)
    /\ Field(op.dg, "id") = JStr(S_empty)
    /\ _cmdHandler # NullHandler
    /\ invoked = <<>>

\* C15: the call of loop() that takes an addressed command with a handler
\* set invokes the handler within that call, once, with the own class and
\* the envelope's payload; the envelope's class, absent or different from
\* the own class, has no part in it.
C15_HandlerGetsOwnClass ==
    (/\ TookDatagram /\ ValidOfType(op.dg, S_command)
     /\ AddressedToMe(op.dg)
     /\ _cmdHandler # NullHandler)
    => /\ Len(invoked) = 1
       /\ invoked[1].class = _class
       /\ invoked[1].payload = AsObject(op.dg.root, "payload")

C15_Witness ==
    /\ TookDatagram /\ ValidOfType(op.dg, S_command)
    /\ AddressedToMe(op.dg)
    /\ IndexOfKey(op.dg.root, "class") = 0
    /\ Len(invoked) = 1
    /\ invoked[1].class = JStr(S_switch)
    /\ invoked[1].payload = [isNull |-> FALSE, pairs |-> InPayload]

EmittedTypes == {JStr(S_discover), JStr(S_pong), JStr(S_state)}

\* C16: every envelope put on the channel, by begin(), by loop() and by the
\* send operations, called before or after begin(), has v = 1, a type among
\* discover, pong and state, and an id and a class that are strings, equal
\* to the id and the class given to begin(); none has an unset id or class.
C16_EmittedEnvelopesCarryIdentity ==
    \A i \in 1..Len(out) :
        /\ Field(out[i], "v") = JInt(1)
        /\ Field(out[i], "type") \in EmittedTypes
        /\ Field(out[i], "id").t = "str"
        /\ Field(out[i], "id") = _id
        /\ Field(out[i], "class").t = "str"
        /\ Field(out[i], "class") = _class

PingQueued == \E i \in 1..Len(rxQueue) : ValidOfType(rxQueue[i], S_ping)

PingAnswered ==
    /\ TookDatagram /\ ValidOfType(op.dg, S_ping)
    /\ Len(out) = 1 /\ Field(out[1], "type") = JStr(S_pong)

CommandQueued ==
    \E i \in 1..Len(rxQueue) :
        ValidOfType(rxQueue[i], S_command) /\ AddressedToMe(rxQueue[i])

CommandDelivered ==
    /\ TookDatagram /\ ValidOfType(op.dg, S_command) /\ AddressedToMe(op.dg)
    /\ invoked # <<>> \/ _cmdHandler = NullHandler

\* C17: with loop() called again and again, every queued datagram is taken
\* in the end: whenever datagrams wait, loop() later takes one; a queued
\* ping is later answered by a pong, and a queued addressed command is
\* later taken and handed to the handler set at that time, whatever
\* malformed, foreign or ignored datagrams were queued before them.
C17_BacklogIsDrained ==
    /\ (rxQueue # <<>>) ~> TookDatagram
    /\ PingQueued ~> PingAnswered
    /\ CommandQueued ~> CommandDelivered

\* whole seconds that have passed after n steps of the clock
ElapsedSeconds(n) ==
    LET d == Only(TickSteps)
    IN  n * d.s + (n * d.ms) \div 1000

\* the value of millis() after n steps of the clock
RECURSIVE MillisAfter(_)
MillisAfter(n) ==
    IF n = 0 THEN [s |-> 0, ms |-> 0]
    ELSE MillisAdd(MillisAfter(n - 1), Only(TickSteps))

\* C18: the uptime of every pong is the number of whole seconds that have
\* passed since the start, and so it is never less than the uptime that a
\* pong sent earlier in the run has reported (the millisecond counter being
\* 32 bits wide).
C18_UptimeNeverDecreases ==
    \A i \in 1..Len(out) :
        Field(out[i], "type") = JStr(S_pong)
        => LET payload == AsObject(out[i].root, "payload").pairs
               uptime == payload[1].val.n
           IN  /\ payload[1].key = "uptime"
               /\ uptime = ElapsedSeconds(ticks)
               /\ \A earlier \in 0..ticks :
                     uptime >= MillisAfter(earlier).s

EmitterNames ==
    {"sendDiscover", "sendPong", "sendState", "sendSwitchState",
     "sendRgbState"}

\* the reaction the envelope dg calls for, given the identity and the handler
ExpectedReaction(dg) ==
    IF Malformed(dg) THEN "none"
    ELSE IF Field(dg, "type") = JStr(S_ping) THEN "pong"
    ELSE IF /\ Field(dg, "type") = JStr(S_command)
            /\ AddressedToMe(dg)
            /\ _cmdHandler # NullHandler
    THEN "call"
    ELSE "none"

\* the reaction a step has shown
Reaction(sent, called) ==
    IF sent = <<>> /\ called = <<>> THEN "none"
    ELSE IF called = <<>> /\ Len(sent) = 1
            /\ Field(sent[1], "type") = JStr(S_pong)
    THEN "pong"
    ELSE IF sent = <<>> /\ Len(called) = 1 THEN "call"
    ELSE "other"

\* C19: loop() and the send operations leave id, class, name, fw and the
\* handler as they are, and onCommand() leaves id, class, name and fw as
\* they are; the reaction of loop() to the datagram that waits first is
\* the one its envelope, the identity and the handler call for, whatever
\* datagrams loop() has processed before.
C19_DispatchIsStateless ==
    [][/\ (op'.name = "loop" \/ op'.name \in EmitterNames)
          => UNCHANGED <<identity, _cmdHandler>>
       /\ op'.name = "onCommand" => UNCHANGED identity
       /\ (loop /\ rxQueue # <<>>)
          => Reaction(out', invoked') = ExpectedReaction(Head(rxQueue))]_vars

====
